---- MODULE Spec2Model ----
(***************************************************************************)
(* Model of the sentiment service (package sentiment): the request         *)
(* pipeline Service.ProcessSentiment with its cache lookup, provider call, *)
(* cache store and result shaping (Service.processAPIResult).              *)
(* Service.handleHTTPRequest, the handler of /api, sits in front of it.    *)
(*                                                                         *)
(* A request text is a sequence of characters, each a one-character        *)
(* string, so that strings.TrimSpace and strings.ToLower are computed, not *)
(* assumed.  The alphabet is Latin-1 (U+0000 to U+00FF); the three         *)
(* characters that cannot be written in a string are the tokens "\\v"      *)
(* (U+000B), "\\u0085" and "\\u00a0".                                      *)
(*                                                                         *)
(* The text of a sentence is an opaque string.  A score is the float32     *)
(* in tenths (8 stands for 0.8); the code uses only its order and, in the  *)
(* codec, its zero test.                                                   *)
(***************************************************************************)
EXTENDS Integers, Sequences, FiniteSets, TLC

\* ------------------------------------------------------------------ bounds

\* Longest sentence list handed to processAPIResult in SpecShape, which draws
\* every list over SentencePool up to this length.
MaxSentences == 7
\* Length of the sentence lists handed to processAPIResult in SpecLong: more
\* than the 12 elements up to which quickSort sorts without partitioning.
LongSentences == 13
\* Most time units a provider call is observed to take.
MaxWait == 3
\* Largest request timeout configured with WithRequestTimeout.
MaxTimeout == 2
\* Latest time the cache clock reaches in SpecClock.
MaxClock == 3
\* Longest entry life time configured with WithCacheEntryTTL.
MaxTTL == 2

\* ------------------------------------------------------- strings (package strings)

\* The upper-case letters of the alphabet: A-Z, U+00C0-U+00D6, U+00D8-U+00DE.
UpperChars == <<"A", "B", "C", "D", "E", "F", "G", "H", "I", "J", "K", "L", "M",
                "N", "O", "P", "Q", "R", "S", "T", "U", "V", "W", "X", "Y", "Z",
                "À", "Á", "Â", "Ã", "Ä", "Å", "Æ", "Ç", "È", "É", "Ê", "Ë", "Ì",
                "Í", "Î", "Ï", "Ð", "Ñ", "Ò", "Ó", "Ô", "Õ", "Ö", "Ø", "Ù", "Ú",
                "Û", "Ü", "Ý", "Þ">>

\* unicode.ToLower of each, position by position.
LowerChars == <<"a", "b", "c", "d", "e", "f", "g", "h", "i", "j", "k", "l", "m",
                "n", "o", "p", "q", "r", "s", "t", "u", "v", "w", "x", "y", "z",
                "à", "á", "â", "ã", "ä", "å", "æ", "ç", "è", "é", "ê", "ë", "ì",
                "í", "î", "ï", "ð", "ñ", "ò", "ó", "ô", "õ", "ö", "ø", "ù", "ú",
                "û", "ü", "ý", "þ">>

\* unicode.IsSpace on the alphabet: '\t', '\n', '\v', '\f', '\r', ' ', U+0085
\* and U+00A0.
SpaceChars == {" ", "\t", "\n", "\\v", "\f", "\r", "\\u0085", "\\u00a0"}

LowerChar(ch) ==
    IF \E i \in 1..Len(UpperChars) : UpperChars[i] = ch
    THEN LowerChars[CHOOSE i \in 1..Len(UpperChars) : UpperChars[i] = ch]
    ELSE ch

\* strings.ToLower
ToLower(s) == [i \in 1..Len(s) |-> LowerChar(s[i])]

RECURSIVE TrimLeft(_)
TrimLeft(s) ==
    IF s # <<>> /\ Head(s) \in SpaceChars THEN TrimLeft(Tail(s)) ELSE s

RECURSIVE TrimRight(_)
TrimRight(s) ==
    IF s # <<>> /\ s[Len(s)] \in SpaceChars
    THEN TrimRight(SubSeq(s, 1, Len(s) - 1))
    ELSE s

\* strings.TrimSpace
TrimSpace(s) == TrimRight(TrimLeft(s))

\* The key without the lowercasing.
SanitizeTrimOnly(input) == TrimSpace(input)

\* sanitizedInput := strings.ToLower(strings.TrimSpace(input))
Sanitize(input) == ToLower(TrimSpace(input))

\* ------------------------------------------------------------ sort orders

Ascending == 0
Descending == 1
SortOrders == {Ascending, Descending}

\* ------------------------------------------------- languagepb result values

\* *languagepb.Sentence: Text and Sentiment are pointers, nil when hasText or
\* hasSentiment is FALSE.
SentenceOf(hasText, text, hasSentiment, score) ==
    [text |-> text, score |-> score, hasText |-> hasText, hasSentiment |-> hasSentiment]

\* A sentence with its Text and its Sentiment.
Sentence(text, score) == SentenceOf(TRUE, text, TRUE, score)

\* *languagepb.AnalyzeSentimentResponse: nil, or a message with Sentences.
NilResult == [isNil |-> TRUE, sentences |-> <<>>]
Result(sentences) == [isNil |-> FALSE, sentences |-> sentences]

\* ------------------------------------------------ codec (proto.Marshal/Unmarshal)
\* The wire form is a sequence of <<field number, payload>> pairs.  proto3
\* leaves out a scalar field that holds its zero value and the decoder fills
\* a missing field with the zero value.

EncodeTextSpan(text) == IF text = "" THEN <<>> ELSE << <<1, text>> >>

\* The score written under the number of the magnitude field.
EncodeSentimentAsMagnitude(score) == IF score = 0 THEN <<>> ELSE << <<2, score>> >>

EncodeSentiment(score) == IF score = 0 THEN <<>> ELSE << <<3, score>> >>

\* A nil sub-message is not written; one with default fields is, empty.
EncodeSentence(s) ==
    (IF s.hasText THEN << <<1, EncodeTextSpan(s.text)>> >> ELSE <<>>)
        \o (IF s.hasSentiment THEN << <<2, EncodeSentiment(s.score)>> >> ELSE <<>>)

\* proto.Marshal(resp): [ok, bytes]; a nil message is an error.
Marshal(result) ==
    IF result.isNil
    THEN [ok |-> FALSE, bytes |-> <<>>]
    ELSE [ok |-> TRUE,
          bytes |-> [i \in 1..Len(result.sentences) |->
                        <<3, EncodeSentence(result.sentences[i])>>]]

\* The payload of the last field numbered n, or the default when absent.
RECURSIVE FieldOr(_, _, _)
FieldOr(fields, n, default) ==
    IF fields = <<>> THEN default
    ELSE IF fields[Len(fields)][1] = n THEN fields[Len(fields)][2]
    ELSE FieldOr(SubSeq(fields, 1, Len(fields) - 1), n, default)

HasField(fields, n) == \E i \in 1..Len(fields) : fields[i][1] = n

\* The occurrences of the message field numbered n, merged: their payloads
\* one after the other.
RECURSIVE Merged(_, _)
Merged(fields, n) ==
    IF fields = <<>> THEN <<>>
    ELSE (IF Head(fields)[1] = n THEN Head(fields)[2] ELSE <<>>) \o Merged(Tail(fields), n)

\* A decoder that reads the text span only.
DecodeSentenceTextOnly(fields) ==
    SentenceOf(HasField(fields, 1), FieldOr(Merged(fields, 1), 1, ""),
               HasField(fields, 2), 0)

\* A sub-message that is absent stays nil.
DecodeSentence(fields) ==
    SentenceOf(HasField(fields, 1), FieldOr(Merged(fields, 1), 1, ""),
               HasField(fields, 2), FieldOr(Merged(fields, 2), 3, 0))

\* Bytes that are no valid wire form.
CorruptBytes == << <<0, <<>>>> >>

\* Bytes whose document_sentiment, and bytes whose sentence text, hold a
\* field numbered 0.
CorruptDocumentSentiment == << <<1, << <<0, <<>>>> >> >> >>
CorruptSentenceText == << <<3, << <<1, << <<0, <<>>>> >> >> >> >> >>

CorruptForms == {CorruptBytes, CorruptDocumentSentiment, CorruptSentenceText}

NoZeroTag(fields) == \A i \in 1..Len(fields) : fields[i][1] # 0

\* A Sentence: its fields, and those of its text (1) and sentiment (2).
WellFormedSentence(fields) ==
    /\ NoZeroTag(fields)
    /\ \A j \in 1..Len(fields) : fields[j][1] \in {1, 2} => NoZeroTag(fields[j][2])

\* No field is numbered 0 in any message the decoder reads: the response,
\* its document_sentiment (1), its sentences (3) and their sub-messages.
\* Fields it does not know are skipped unread.
WellFormed(bytes) ==
    /\ NoZeroTag(bytes)
    /\ \A i \in 1..Len(bytes) :
          /\ bytes[i][1] = 1 => NoZeroTag(bytes[i][2])
          /\ bytes[i][1] = 3 => WellFormedSentence(bytes[i][2])

RECURSIVE DecodeSentences(_)
DecodeSentences(bytes) ==
    IF bytes = <<>> THEN <<>>
    ELSE IF Head(bytes)[1] = 3
         THEN <<DecodeSentence(Head(bytes)[2])>> \o DecodeSentences(Tail(bytes))
         ELSE DecodeSentences(Tail(bytes))

\* proto.Unmarshal(entry, &result): [ok, result]
Unmarshal(bytes) ==
    IF WellFormed(bytes)
    THEN [ok |-> TRUE, result |-> Result(DecodeSentences(bytes))]
    ELSE [ok |-> FALSE, result |-> NilResult]

\* ------------------------------------------------------------- sort.Sort
\* byScoreAsc.Less / byScoreDesc.Less on positions i, j of b.

\* The two comparators exchanged.
LessSwapped(b, i, j, sortOrder) ==
    IF sortOrder = Ascending
    THEN b[i].score > b[j].score
    ELSE b[i].score < b[j].score

Less(b, i, j, sortOrder) ==
    IF sortOrder = Ascending
    THEN b[i].score < b[j].score
    ELSE b[i].score > b[j].score

\* byScoreAsc.Swap / byScoreDesc.Swap
Swap(b, i, j) == [b EXCEPT ![i] = b[j], ![j] = b[i]]

\* The sort package addresses the slice by Go's indices, which start at 0.
LessAt(data, i, j, sortOrder) == Less(data, i + 1, j + 1, sortOrder)

SwapAt(data, i, j) == Swap(data, i + 1, j + 1)

\* insertionSort's inner loop: for j := i; j > a && Less(j, j-1); j-- { Swap(j, j-1) }
RECURSIVE InsertionInner(_, _, _, _)
InsertionInner(data, a, j, sortOrder) ==
    IF j > a /\ LessAt(data, j, j - 1, sortOrder)
    THEN InsertionInner(SwapAt(data, j, j - 1), a, j - 1, sortOrder)
    ELSE data

\* insertionSort's outer loop: for i := a + 1; i < b; i++
RECURSIVE InsertionOuter(_, _, _, _, _)
InsertionOuter(data, a, b, i, sortOrder) ==
    IF i >= b THEN data
    ELSE InsertionOuter(InsertionInner(data, a, i, sortOrder), a, b, i + 1, sortOrder)

\* insertionSort(data, a, b) sorts data[a:b].
InsertionSort(data, a, b, sortOrder) == InsertionOuter(data, a, b, a + 1, sortOrder)

\* siftDown(data, lo, hi, first), the loop over root starting at lo:
\*   child := 2*root + 1; if child >= hi { return }
\*   if child+1 < hi && Less(first+child, first+child+1) { child++ }
\*   if !Less(first+root, first+child) { return }
\*   Swap(first+root, first+child); root = child
RECURSIVE SiftDown(_, _, _, _, _)
SiftDown(data, root, hi, first, sortOrder) ==
    LET child == 2 * root + 1
        larger == IF /\ child + 1 < hi
                     /\ LessAt(data, first + child, first + child + 1, sortOrder)
                  THEN child + 1
                  ELSE child
    IN  IF child >= hi THEN data
        ELSE IF ~LessAt(data, first + root, first + larger, sortOrder) THEN data
        ELSE SiftDown(SwapAt(data, first + root, first + larger), larger, hi, first,
                      sortOrder)

\* heapSort's first loop: for i := (hi - 1) / 2; i >= 0; i-- { siftDown(data, i, hi, first) }
RECURSIVE HeapBuild(_, _, _, _, _)
HeapBuild(data, i, hi, first, sortOrder) ==
    IF i < 0 THEN data
    ELSE HeapBuild(SiftDown(data, i, hi, first, sortOrder), i - 1, hi, first, sortOrder)

\* heapSort's second loop:
\*   for i := hi - 1; i >= 0; i-- { Swap(first, first+i); siftDown(data, lo, i, first) }
RECURSIVE HeapPop(_, _, _, _)
HeapPop(data, i, first, sortOrder) ==
    IF i < 0 THEN data
    ELSE HeapPop(SiftDown(SwapAt(data, first, first + i), 0, i, first, sortOrder),
                 i - 1, first, sortOrder)

\* heapSort(data, a, b): first := a; lo := 0; hi := b - a
HeapSort(data, a, b, sortOrder) ==
    HeapPop(HeapBuild(data, (b - a - 1) \div 2, b - a, a, sortOrder), b - a - 1, a,
            sortOrder)

\* if Less(i, j) { Swap(i, j) }
SwapIfLess(data, i, j, sortOrder) ==
    IF LessAt(data, i, j, sortOrder) THEN SwapAt(data, i, j) ELSE data

\* medianOfThree after its first statement:
\*   if Less(m2, m1) { Swap(m2, m1); if Less(m1, m0) { Swap(m1, m0) } }
MedianRest(data, m1, m0, m2, sortOrder) ==
    IF LessAt(data, m2, m1, sortOrder)
    THEN SwapIfLess(SwapAt(data, m2, m1), m1, m0, sortOrder)
    ELSE data

\* medianOfThree(data, m1, m0, m2) moves the median of the three to m1:
\*   if Less(m1, m0) { Swap(m1, m0) }
\*   if Less(m2, m1) { Swap(m2, m1); if Less(m1, m0) { Swap(m1, m0) } }
MedianOfThree(data, m1, m0, m2, sortOrder) ==
    MedianRest(SwapIfLess(data, m1, m0, sortOrder), m1, m0, m2, sortOrder)

\* doPivot's choice of the pivot, which it moves to lo: m := (lo + hi) / 2 and
\*   if hi-lo > 40 { s := (hi - lo) / 8; medianOfThree(data, lo, lo+s, lo+2*s)
\*       medianOfThree(data, m, m-s, m+s); medianOfThree(data, hi-1, hi-1-s, hi-1-2*s) }
\*   medianOfThree(data, lo, m, hi-1)
Ninther(data, lo, m, hi, s, sortOrder) ==
    MedianOfThree(
        MedianOfThree(
            MedianOfThree(data, lo, lo + s, lo + 2 * s, sortOrder),
            m, m - s, m + s, sortOrder),
        hi - 1, hi - 1 - s, hi - 1 - 2 * s, sortOrder)

ChoosePivot(data, lo, hi, sortOrder) ==
    MedianOfThree(IF hi - lo > 40
                  THEN Ninther(data, lo, (lo + hi) \div 2, hi, (hi - lo) \div 8, sortOrder)
                  ELSE data,
                  lo, (lo + hi) \div 2, hi - 1, sortOrder)

\* doPivot: for ; a < c && Less(a, pivot); a++ { }
RECURSIVE SkipLess(_, _, _, _, _)
SkipLess(data, a, c, pivot, sortOrder) ==
    IF a < c /\ LessAt(data, a, pivot, sortOrder)
    THEN SkipLess(data, a + 1, c, pivot, sortOrder)
    ELSE a

\* doPivot: for ; b < c && !Less(pivot, b); b++ { }
RECURSIVE ScanUp(_, _, _, _, _)
ScanUp(data, b, c, pivot, sortOrder) ==
    IF b < c /\ ~LessAt(data, pivot, b, sortOrder)
    THEN ScanUp(data, b + 1, c, pivot, sortOrder)
    ELSE b

\* doPivot: for ; b < c && Less(pivot, c-1); c-- { }
RECURSIVE ScanDown(_, _, _, _, _)
ScanDown(data, b, c, pivot, sortOrder) ==
    IF b < c /\ LessAt(data, pivot, c - 1, sortOrder)
    THEN ScanDown(data, b, c - 1, pivot, sortOrder)
    ELSE c

\* doPivot's partitioning loop, on the record p of data and the indices a, b, c:
\*   for { <scan b up>; <scan c down>; if b >= c { break }; Swap(b, c-1); b++; c-- }
RECURSIVE PartitionLoop(_, _, _)
PartitionLoop(p, pivot, sortOrder) ==
    LET b1 == ScanUp(p.data, p.b, p.c, pivot, sortOrder)
        c1 == ScanDown(p.data, b1, p.c, pivot, sortOrder)
    IN  IF b1 >= c1 THEN [p EXCEPT !.b = b1, !.c = c1]
        ELSE PartitionLoop([p EXCEPT !.data = SwapAt(p.data, b1, c1 - 1),
                                     !.b = b1 + 1, !.c = c1 - 1],
                           pivot, sortOrder)

\* doPivot from pivot := lo to the end of the partitioning loop:
\*   a, c := lo+1, hi-1; <advance a>; b := a; <partitioning loop>
PivotScan(data, a, hi, pivot, sortOrder) ==
    PartitionLoop([data |-> data, a |-> a, b |-> a, c |-> hi - 1, protect |-> FALSE],
                  pivot, sortOrder)

\* doPivot: if !Less(pivot, hi-1) { Swap(c, hi-1); c++; dups++ }
DupTop(p, hi, pivot, sortOrder) ==
    IF ~LessAt(p.data, pivot, hi - 1, sortOrder)
    THEN [p EXCEPT !.data = SwapAt(p.data, p.c, hi - 1), !.c = p.c + 1,
                   !.dups = p.dups + 1]
    ELSE p

\* doPivot: if !Less(b-1, pivot) { b--; dups++ }
DupLow(p, pivot, sortOrder) ==
    IF ~LessAt(p.data, p.b - 1, pivot, sortOrder)
    THEN [p EXCEPT !.b = p.b - 1, !.dups = p.dups + 1]
    ELSE p

\* doPivot: if !Less(m, pivot) { Swap(m, b-1); b--; dups++ }
DupMid(p, m, pivot, sortOrder) ==
    IF ~LessAt(p.data, m, pivot, sortOrder)
    THEN [p EXCEPT !.data = SwapAt(p.data, m, p.b - 1), !.b = p.b - 1,
                   !.dups = p.dups + 1]
    ELSE p

\* doPivot: protect = dups > 1
DupsProtect(p) ==
    [data |-> p.data, a |-> p.a, b |-> p.b, c |-> p.c, protect |-> p.dups > 1]

\* doPivot's test of three points for equality to the pivot.
TestDups(p, m, hi, pivot, sortOrder) ==
    DupsProtect(
        DupMid(DupLow(DupTop([data |-> p.data, a |-> p.a, b |-> p.b, c |-> p.c,
                              dups |-> 0],
                             hi, pivot, sortOrder),
                      pivot, sortOrder),
               m, pivot, sortOrder))

\* doPivot: protect := hi-c < 5
\*          if !protect && hi-c < (hi-lo)/4 { <test for duplicates> }
PivotDups(p, lo, hi, sortOrder) ==
    IF hi - p.c < 5 THEN [p EXCEPT !.protect = TRUE]
    ELSE IF hi - p.c < (hi - lo) \div 4
    THEN TestDups(p, (lo + hi) \div 2, hi, lo, sortOrder)
    ELSE p

\* doPivot: for ; a < b && !Less(b-1, pivot); b-- { }
RECURSIVE ProtectDown(_, _, _, _, _)
ProtectDown(data, a, b, pivot, sortOrder) ==
    IF a < b /\ ~LessAt(data, b - 1, pivot, sortOrder)
    THEN ProtectDown(data, a, b - 1, pivot, sortOrder)
    ELSE b

\* doPivot's loop that gathers the elements equal to the pivot:
\*   for { <scan b down>; <scan a up>; if a >= b { break }; Swap(a, b-1); a++; b-- }
RECURSIVE ProtectLoop(_, _, _)
ProtectLoop(p, pivot, sortOrder) ==
    LET b1 == ProtectDown(p.data, p.a, p.b, pivot, sortOrder)
        a1 == SkipLess(p.data, p.a, b1, pivot, sortOrder)
    IN  IF a1 >= b1 THEN [p EXCEPT !.a = a1, !.b = b1]
        ELSE ProtectLoop([p EXCEPT !.data = SwapAt(p.data, a1, b1 - 1),
                                   !.a = a1 + 1, !.b = b1 - 1],
                         pivot, sortOrder)

\* doPivot: if protect { <gather the elements equal to the pivot> }
PivotProtect(p, pivot, sortOrder) ==
    IF p.protect THEN ProtectLoop(p, pivot, sortOrder) ELSE p

\* doPivot's end: Swap(pivot, b-1); return b - 1, c
PivotEnd(p, pivot) ==
    [data |-> SwapAt(p.data, pivot, p.b - 1), mlo |-> p.b - 1, mhi |-> p.c]

\* doPivot's steps after the choice of the pivot, which is at lo.
PivotSplit(data, lo, hi, sortOrder) ==
    PivotEnd(
        PivotProtect(
            PivotDups(
                PivotScan(data, SkipLess(data, lo + 1, hi - 1, lo, sortOrder), hi, lo,
                          sortOrder),
                lo, hi, sortOrder),
            lo, sortOrder),
        lo)

\* doPivot(data, lo, hi) partitions data[lo:hi] around a pivot and returns
\* midlo, midhi with data[lo:midlo] < pivot, data[midlo:midhi] = pivot and
\* data[midhi:hi] > pivot. The pivot is the median of the first, the middle
\* and the last element, and of three such medians for more than 40 elements.
DoPivot(data, lo, hi, sortOrder) ==
    PivotSplit(ChoosePivot(data, lo, hi, sortOrder), lo, hi, sortOrder)

\* The ShellSort pass with gap 6 that quickSort makes over a range of at most
\* 12 elements: for i := a + 6; i < b; i++ { if Less(i, i-6) { Swap(i, i-6) } }
RECURSIVE ShellPass(_, _, _, _)
ShellPass(data, i, b, sortOrder) ==
    IF i >= b THEN data
    ELSE ShellPass(SwapIfLess(data, i, i - 6, sortOrder), i + 1, b, sortOrder)

\* quickSort(data, a, b, maxDepth): while the range has more than 12 elements
\* it is partitioned (heap-sorted once maxDepth is used up), the smaller part
\* is sorted by a recursive call and the loop goes on with the larger one; a
\* range of 2 to 12 elements gets the ShellSort pass and an insertion sort.
RECURSIVE QuickSort(_, _, _, _, _)

\* quickSort after mlo, mhi := doPivot(data, a, b):
\*   if mlo-a < b-mhi { quickSort(data, a, mlo, maxDepth); a = mhi }
\*   else { quickSort(data, mhi, b, maxDepth); b = mlo }
SortParts(p, a, b, maxDepth, sortOrder) ==
    IF p.mlo - a < b - p.mhi
    THEN QuickSort(QuickSort(p.data, a, p.mlo, maxDepth, sortOrder), p.mhi, b,
                   maxDepth, sortOrder)
    ELSE QuickSort(QuickSort(p.data, p.mhi, b, maxDepth, sortOrder), a, p.mlo,
                   maxDepth, sortOrder)

QuickSort(data, a, b, maxDepth, sortOrder) ==
    IF b - a > 12
    THEN IF maxDepth = 0 THEN HeapSort(data, a, b, sortOrder)
         ELSE SortParts(DoPivot(data, a, b, sortOrder), a, b, maxDepth - 1, sortOrder)
    ELSE IF b - a > 1
    THEN InsertionSort(ShellPass(data, a + 6, b, sortOrder), a, b, sortOrder)
    ELSE data

\* maxDepth(n) is 2*ceil(lg(n+1)): for i := n; i > 0; i >>= 1 { depth++ }; return depth * 2
RECURSIVE BitLen(_)
BitLen(n) == IF n > 0 THEN 1 + BitLen(n \div 2) ELSE 0

MaxDepth(n) == 2 * BitLen(n)

\* The sort implementations a build of the service can link: the one of
\* Go 1.6 to 1.18 (the Dockerfile builds with golang:1.10), modelled in full,
\* and the one of Go 1.19 and later, modelled for the slices of at most 12
\* elements that it insertion-sorts directly. A slice of more than 12
\* elements is sorted only under "go1.10".
SortImpls == {"go1.10", "go1.19"}

\* sort.Sort(byScoreAsc(s)) / sort.Sort(byScoreDesc(s)).
\* A sort order that is neither named constant matches no case of the switch
\* and leaves the slice as it is.
SortSentences(s, sortOrder, impl) ==
    IF sortOrder \notin SortOrders THEN s
    ELSE IF impl = "go1.10"
    THEN QuickSort(s, 0, Len(s), MaxDepth(Len(s)), sortOrder)
    ELSE InsertionSort(s, 0, Len(s), sortOrder)

\* Less reads Sentiment.Score of both sentences it compares, and a sort of
\* two or more sentences compares every one of them.
SortPanics(s, sortOrder) ==
    /\ sortOrder \in SortOrders
    /\ Len(s) >= 2
    /\ \E i \in 1..Len(s) : ~s[i].hasSentiment

\* ------------------------------------------------------ processAPIResult

NoError == "nil"
CtxError == "context canceled"
ProviderError == "provider error"
\* Not an error returned: the call does not return.
Panic == "panic: nil pointer dereference"

Returned(resp, respNil, err) == [resp |-> resp, respNil |-> respNil, err |-> err]

\* The clamp without the test for a negative limit.
ArraySizeUnguarded(n, limit) == IF n < limit THEN n ELSE limit

\* arraySize := limit; if arraySize < 0 {..} else if len(result.Sentences) < arraySize {..}
ArraySize(n, limit) ==
    IF limit < 0 THEN n
    ELSE IF n < limit THEN n
    ELSE limit

\* resp[i] = map[string]float32{Text.Content: Sentiment.Score}
Project(sorted, arraySize) ==
    [i \in 1..arraySize |-> (sorted[i].text :> sorted[i].score)]

\* processAPIResult without its ctx.Err() check.
ProcessAPIResultUnchecked(ctxDone, result, sortOrder, limit, impl) ==
    IF result.isNil THEN Returned(<<>>, TRUE, NoError)
    ELSE IF SortPanics(result.sentences, sortOrder) THEN Returned(<<>>, TRUE, Panic)
    ELSE LET sorted == SortSentences(result.sentences, sortOrder, impl)
             arraySize == ArraySize(Len(sorted), limit)
         IN  IF \E i \in 1..arraySize : ~sorted[i].hasText \/ ~sorted[i].hasSentiment
             THEN Returned(<<>>, TRUE, Panic)
             ELSE Returned(Project(sorted, arraySize), FALSE, NoError)

\* Service.processAPIResult(ctx, result, sortOrder, limit); ctxDone is ctx.Err() != nil.
\* Reading Text.Content or Sentiment.Score of a sentence that has none panics.
ProcessAPIResult(ctxDone, result, sortOrder, limit, impl) ==
    IF ctxDone THEN Returned(<<>>, TRUE, CtxError)
    ELSE IF result.isNil THEN Returned(<<>>, TRUE, NoError)
    ELSE IF SortPanics(result.sentences, sortOrder) THEN Returned(<<>>, TRUE, Panic)
    ELSE LET sorted == SortSentences(result.sentences, sortOrder, impl)
             arraySize == ArraySize(Len(sorted), limit)
         IN  IF \E i \in 1..arraySize : ~sorted[i].hasText \/ ~sorted[i].hasSentiment
             THEN Returned(<<>>, TRUE, Panic)
             ELSE Returned(Project(sorted, arraySize), FALSE, NoError)

\* ------------------------------------------------------------ request inputs

\* The request texts tried: " Hello ", "hello", "Hello" and "hello world".
RawTexts == { <<" ", "H", "e", "l", "l", "o", " ">>,
              <<"h", "e", "l", "l", "o">>,
              <<"H", "e", "l", "l", "o">>,
              <<"h", "e", "l", "l", "o", " ", "w", "o", "r", "l", "d">> }

\* The cache keys these texts address.
Keys == {Sanitize(r) : r \in RawTexts}

\* The limits a request of the service specifications carries.
Limits == {-1, 1}

\* The answer of a provider that is a function of the text it is given.
Analyze(text) ==
    IF text = <<>>
        THEN Result(<<>>)
    ELSE IF text = <<" ", "H", "e", "l", "l", "o", " ">>
        THEN Result(<<Sentence("Hello", 8)>>)
    ELSE IF text = <<"H", "e", "l", "l", "o">>
        THEN Result(<<Sentence("Hello", 8), Sentence("", 0)>>)
    ELSE IF text = <<"h", "e", "l", "l", "o">>
        THEN Result(<<Sentence("hello", 2), Sentence("hello", -8)>>)
    ELSE Result(<<Sentence("hello", 8), Sentence("world", 0)>>)

\* What the client may return with a nil error: a message, possibly without
\* sentences, or (a test double) a nil message.
ProviderResults == {Analyze(r) : r \in RawTexts} \cup {Result(<<>>), NilResult}

\* The sentences SpecShape builds its lists from: two texts with an equal
\* score, and one text carrying two scores.
SentencePool == {Sentence("word1", 8), Sentence("word2", 8), Sentence("word1", -8)}

RECURSIVE SeqsUpTo(_, _)
SeqsUpTo(S, n) ==
    IF n = 0 THEN {<<>>}
    ELSE LET shorter == SeqsUpTo(S, n - 1)
         IN  shorter \cup {Append(q, x) : q \in {t \in shorter : Len(t) = n - 1}, x \in S}

ShapeLimits == (-2..2) \cup {MaxSentences - 1, MaxSentences, MaxSentences + 1}

\* A SortOrder that is neither Ascending nor Descending (the type is an int).
UnnamedOrder == 2

\* Results with a sentence that lacks its Sentiment or its Text.
PartialResults ==
    { Result(<<SentenceOf(TRUE, "word1", FALSE, 0)>>),
      Result(<<SentenceOf(FALSE, "", TRUE, 8)>>),
      Result(<<Sentence("word1", 8), SentenceOf(TRUE, "word2", FALSE, 0)>>),
      Result(<<Sentence("word1", 8), SentenceOf(FALSE, "", TRUE, -8)>>) }

\* The results SpecShape also shapes under an unnamed sort order.
ExtraResults ==
    PartialResults \cup {Result(<<Sentence("word1", 8), Sentence("word2", 8),
                                  Sentence("word1", -8)>>)}

\* ------------------------------------------------------------------- state

\* The calls in progress at once: requests are served concurrently.
Calls == {"c1", "c2"}

\* The call of the specifications that make one call at a time.
Solo == {"c1"}

VARIABLES
    conf,       \* config: [requestTimeout]
    sortImpl,   \* the sort implementation of the build
    cache,      \* bigcache: key -> [present, bytes, insertedAt]
    call,       \* per ProcessSentiment call: position and locals
    obs,        \* per call: what the call did (history)
    watch,      \* the (key, sort, limit) whose responses memo follows, if any
    memo,       \* the last successful response for watch while its entry lives
    http,       \* per call: the HTTP request being handled and its response
    now         \* the clock bigcache stamps entries with

vars == <<conf, sortImpl, cache, call, obs, watch, memo, http, now>>

\* requestTimeout: 1 * time.Second
DefaultRequestTimeout == 1

\* cacheEntryTTL: 10 * time.Minute; the cache clock counts minutes.
DefaultCacheEntryTTL == 10

NoEntry == [present |-> FALSE, bytes |-> <<>>, insertedAt |-> 0]

\* One exchange on /api: the request as received (method, body tokens, raw
\* order and limit parameters), and the reply once written (status 0: none yet).
NoHTTP == [active |-> FALSE, method |-> "", reqBody |-> <<>>, order |-> <<>>,
           limit |-> <<>>, status |-> 0, text |-> "", body |-> <<>>, bodyNil |-> TRUE]

NoWatch == [on |-> FALSE, key |-> <<>>, sort |-> Ascending, limit |-> 0]

IdleCall == [pc |-> "idle", input |-> <<>>, sort |-> Ascending, limit |-> 0,
             ctxDone |-> FALSE, result |-> NilResult,
             ret |-> Returned(<<>>, TRUE, NoError)]

NoExpect == [valid |-> FALSE, resp |-> <<>>]

\* gets, sets: the keys handed to cache.Get and cache.Set; provReqs: the texts
\* handed to AnalyzeSentiment; entryDone: ctx.Err() at entry; checked, checkDone:
\* the check of processAPIResult and what it found; hit: served from the cache;
\* provFailed: AnalyzeSentiment returned an error;
\* waited: time spent in the provider call; expect: memo as the lookup found it;
\* decodeErr: the entry was there and proto.Unmarshal failed; setDropped:
\* cache.Set did not keep the entry; lostEntry: the entry for the call's key
\* was dropped or damaged since the call was entered; follows: the provider
\* answer that the call before, abandoned after its store, left in the cache
\* under this call's key.
NoFollows == [valid |-> FALSE, result |-> NilResult]

NoObs == [gets |-> <<>>, sets |-> <<>>, provReqs |-> <<>>, entryDone |-> FALSE,
          checked |-> FALSE, checkDone |-> FALSE, hit |-> FALSE, provFailed |-> FALSE,
          waited |-> 0, expect |-> NoExpect, decodeErr |-> FALSE,
          setDropped |-> FALSE, lostEntry |-> FALSE, follows |-> NoFollows]

\* NewService(opts...): the default configuration, changed by the options.
WithRequestTimeout(c, timeout) == [c EXCEPT !.requestTimeout = timeout]

WithCacheEntryTTL(c, ttl) == [c EXCEPT !.cacheEntryTTL = ttl]

DefaultConf == [requestTimeout |-> DefaultRequestTimeout,
                cacheEntryTTL |-> DefaultCacheEntryTTL]

\* The service as NewService leaves it, no call made yet.
InitService ==
    /\ sortImpl = "go1.10"
    /\ cache = [k \in Keys |-> NoEntry]
    /\ call = [c \in Calls |-> IdleCall]
    /\ obs = [c \in Calls |-> NoObs]
    /\ memo = NoExpect
    /\ http = [c \in Calls |-> NoHTTP]
    /\ now = 0

Init ==
    /\ InitService
    /\ conf = DefaultConf
    /\ watch = NoWatch

\* ------------------------------------------------------------------ actions

Watched(c) ==
    /\ watch.on
    /\ Sanitize(call[c].input) = watch.key
    /\ call[c].sort = watch.sort
    /\ call[c].limit = watch.limit

\* What the call returns to its caller: memo follows a success for watch
\* while the entry for its key is in the cache.
MemoAfter(c, ret, cacheNow) ==
    IF Watched(c) /\ ret.err = NoError /\ cacheNow[watch.key].present
    THEN [valid |-> TRUE, resp |-> ret.resp]
    ELSE memo

\* What the call that c made last left behind for a call with input: its
\* provider answer, if it stored it, was then found cancelled, and the entry
\* is still there under the key of input.
FollowsOf(c, input) ==
    IF /\ call[c].pc = "done"
       /\ obs[c].checked /\ obs[c].checkDone
       /\ ~obs[c].hit /\ ~call[c].result.isNil
       /\ Len(obs[c].sets) = 1 /\ ~obs[c].setDropped /\ ~obs[c].lostEntry
       /\ Sanitize(call[c].input) = Sanitize(input)
    THEN [valid |-> TRUE, result |-> call[c].result]
    ELSE NoFollows

\* An entry that goes on to the lookup whatever ctx.Err() says.
EnterUnchecked(c, input, sort, limit, ctxDone) ==
    /\ call[c].pc \in {"idle", "done"}
    /\ obs' = [obs EXCEPT ![c] = [NoObs EXCEPT !.entryDone = ctxDone,
                                               !.follows = FollowsOf(c, input)]]
    /\ call' = [call EXCEPT ![c] =
                  [IdleCall EXCEPT !.input = input, !.sort = sort, !.limit = limit,
                                   !.ctxDone = ctxDone, !.pc = "lookup"]]
    /\ UNCHANGED <<http, now, conf, sortImpl, cache, watch, memo>>

\* ProcessSentiment entry: the ctx.Err() check and the key.
Enter(c, input, sort, limit, ctxDone) ==
    /\ call[c].pc \in {"idle", "done"}
    /\ obs' = [obs EXCEPT ![c] = [NoObs EXCEPT !.entryDone = ctxDone,
                                               !.follows = FollowsOf(c, input)]]
    /\ call' = [call EXCEPT ![c] =
                  [IdleCall EXCEPT !.input = input, !.sort = sort, !.limit = limit,
                                   !.ctxDone = ctxDone,
                                   !.pc = IF ctxDone THEN "done" ELSE "lookup",
                                   !.ret = IF ctxDone THEN Returned(<<>>, TRUE, CtxError)
                                           ELSE Returned(<<>>, TRUE, NoError)]]
    /\ UNCHANGED <<http, now, conf, sortImpl, cache, watch, memo>>

\* The entry under key is there and is no valid wire form.
DecodeFails(key) == cache[key].present /\ ~WellFormed(cache[key].bytes)

\* getCachedResult returning &result without looking at Unmarshal's error.
GetCachedResultNoErrCheck(key) ==
    IF ~cache[key].present THEN NilResult
    ELSE IF ~Unmarshal(cache[key].bytes).ok THEN Result(<<>>)
    ELSE Unmarshal(cache[key].bytes).result

\* Service.getCachedResult(key): the decoded entry, or nil.
GetCachedResult(key) ==
    IF ~cache[key].present THEN NilResult
    ELSE IF ~Unmarshal(cache[key].bytes).ok THEN NilResult
    ELSE Unmarshal(cache[key].bytes).result

\* A lookup that restarts the life time of the entry it finds.
LookupRefreshing(c) ==
    /\ call[c].pc = "lookup"
    /\ LET key == Sanitize(call[c].input)
           cachedResult == GetCachedResult(key)
       IN  IF ~cachedResult.isNil
           THEN /\ call' = [call EXCEPT ![c].pc = "shape", ![c].result = cachedResult]
                /\ obs' = [obs EXCEPT ![c].gets = Append(@, key), ![c].hit = TRUE,
                                      ![c].decodeErr = DecodeFails(key),
                                      ![c].expect = IF Watched(c) THEN memo ELSE NoExpect]
                /\ cache' = [cache EXCEPT ![key].insertedAt = now]
           ELSE /\ call' = [call EXCEPT ![c].pc = "calling"]
                /\ obs' = [obs EXCEPT ![c].gets = Append(@, key),
                                      ![c].provReqs = Append(@, call[c].input),
                                      ![c].decodeErr = DecodeFails(key),
                                      ![c].expect = IF Watched(c) THEN memo ELSE NoExpect]
                /\ cache' = cache
    /\ UNCHANGED <<http, now, conf, sortImpl, watch, memo>>

\* The cache lookup; on a miss the provider is called with the input.
Lookup(c) ==
    /\ call[c].pc = "lookup"
    /\ LET key == Sanitize(call[c].input)
           cachedResult == GetCachedResult(key)
       IN  IF ~cachedResult.isNil
           THEN /\ call' = [call EXCEPT ![c].pc = "shape", ![c].result = cachedResult]
                /\ obs' = [obs EXCEPT ![c].gets = Append(@, key), ![c].hit = TRUE,
                                      ![c].decodeErr = DecodeFails(key),
                                      ![c].expect = IF Watched(c) THEN memo ELSE NoExpect]
           ELSE /\ call' = [call EXCEPT ![c].pc = "calling"]
                /\ obs' = [obs EXCEPT ![c].gets = Append(@, key),
                                      ![c].provReqs = Append(@, call[c].input),
                                      ![c].decodeErr = DecodeFails(key),
                                      ![c].expect = IF Watched(c) THEN memo ELSE NoExpect]
    /\ UNCHANGED <<http, now, conf, sortImpl, cache, watch, memo>>

\* The answer of the provider stored only where no entry is present yet.
ProviderOKKeepFirst(c, resp, stored) ==
    /\ call[c].pc = "calling"
    /\ LET key == Sanitize(call[c].input)
           respBytes == Marshal(resp)
       IN  /\ cache' = IF respBytes.ok /\ stored /\ ~cache[key].present
                       THEN [cache EXCEPT ![key] = [present |-> TRUE,
                                                    bytes |-> respBytes.bytes,
                                                    insertedAt |-> now]]
                       ELSE cache
           /\ obs' = [obs EXCEPT ![c].sets = IF respBytes.ok THEN Append(@, key) ELSE @,
                                 ![c].setDropped = respBytes.ok /\ ~stored]
    /\ call' = [call EXCEPT ![c].pc = "shape", ![c].result = resp]
    /\ UNCHANGED <<http, now, conf, sortImpl, watch, memo>>

\* The answer of the provider stored only if the context is still live, as
\* if the cancellation check came before the store.
ProviderOKCheckFirst(c, resp, stored) ==
    /\ call[c].pc = "calling"
    /\ LET key == Sanitize(call[c].input)
           respBytes == Marshal(resp)
       IN  /\ cache' = IF respBytes.ok /\ stored /\ ~call[c].ctxDone
                       THEN [cache EXCEPT ![key] = [present |-> TRUE,
                                                    bytes |-> respBytes.bytes,
                                                    insertedAt |-> now]]
                       ELSE cache
           /\ obs' = [obs EXCEPT ![c].sets = IF respBytes.ok /\ ~call[c].ctxDone
                                             THEN Append(@, key) ELSE @,
                                 ![c].setDropped = respBytes.ok /\ ~stored]
    /\ call' = [call EXCEPT ![c].pc = "shape", ![c].result = resp]
    /\ UNCHANGED <<http, now, conf, sortImpl, watch, memo>>

\* AnalyzeSentiment returns resp; it is encoded and stored under the key.
\* stored is whether cache.Set keeps the entry (its error is ignored).
ProviderOK(c, resp, stored) ==
    /\ call[c].pc = "calling"
    /\ LET key == Sanitize(call[c].input)
           respBytes == Marshal(resp)
       IN  /\ cache' = IF respBytes.ok /\ stored
                       THEN [cache EXCEPT ![key] = [present |-> TRUE,
                                                    bytes |-> respBytes.bytes,
                                                    insertedAt |-> now]]
                       ELSE cache
           /\ obs' = [obs EXCEPT ![c].sets = IF respBytes.ok THEN Append(@, key) ELSE @,
                                 ![c].setDropped = respBytes.ok /\ ~stored]
    /\ call' = [call EXCEPT ![c].pc = "shape", ![c].result = resp]
    /\ UNCHANGED <<http, now, conf, sortImpl, watch, memo>>

\* A provider error answered by a second attempt.
ProviderFailRetry(c) ==
    /\ call[c].pc = "calling"
    /\ IF Len(obs[c].provReqs) < 2
       THEN /\ obs' = [obs EXCEPT ![c].provReqs = Append(@, call[c].input)]
            /\ call' = call
       ELSE /\ obs' = [obs EXCEPT ![c].provFailed = TRUE]
            /\ call' = [call EXCEPT ![c].pc = "done",
                                    ![c].ret = Returned(<<>>, TRUE, ProviderError)]
    /\ UNCHANGED <<http, now, conf, sortImpl, cache, watch, memo>>

\* AnalyzeSentiment returns an error: the call returns it.
ProviderFail(c) ==
    /\ call[c].pc = "calling"
    /\ call' = [call EXCEPT ![c].pc = "done",
                            ![c].ret = Returned(<<>>, TRUE, ProviderError)]
    /\ obs' = [obs EXCEPT ![c].provFailed = TRUE]
    /\ UNCHANGED <<http, now, conf, sortImpl, cache, watch, memo>>

\* return svc.processAPIResult(ctx, result, sort, limit); a call that panics
\* there does not return.
Shape(c) ==
    /\ call[c].pc = "shape"
    /\ LET ret == ProcessAPIResult(call[c].ctxDone, call[c].result, call[c].sort,
                                   call[c].limit, sortImpl)
       IN  /\ call' = [call EXCEPT ![c].pc = IF ret.err = Panic THEN "panicked" ELSE "done",
                                   ![c].ret = ret]
           /\ memo' = MemoAfter(c, ret, cache)
    /\ obs' = [obs EXCEPT ![c].checked = TRUE, ![c].checkDone = call[c].ctxDone]
    /\ UNCHANGED <<http, now, conf, sortImpl, cache, watch>>

\* The caller cancels the context of a call in progress, or its deadline passes.
Cancel(c) ==
    /\ call[c].pc \in {"lookup", "calling", "shape"}
    /\ ~call[c].ctxDone
    /\ call' = [call EXCEPT ![c].ctxDone = TRUE]
    /\ UNCHANGED <<http, now, conf, sortImpl, cache, obs, watch, memo>>

\* A unit of time passes while the provider has not answered.
Tick(c) ==
    /\ call[c].pc = "calling"
    /\ obs[c].waited < MaxWait
    /\ obs' = [obs EXCEPT ![c].waited = @ + 1]
    /\ UNCHANGED <<http, now, conf, sortImpl, cache, call, watch, memo>>

\* The calls on key note that its entry is gone.
LostEntry(key) ==
    [c \in Calls |->
        IF call[c].pc # "idle" /\ Sanitize(call[c].input) = key
        THEN [obs[c] EXCEPT !.lostEntry = TRUE,
                            !.follows = IF call[c].pc = "lookup" THEN NoFollows ELSE @]
        ELSE obs[c]]

\* bigcache drops an entry: its TTL passed, or memory is needed.
Evict(key) ==
    /\ cache[key].present
    /\ cache' = [cache EXCEPT ![key] = NoEntry]
    /\ memo' = IF watch.on /\ key = watch.key THEN NoExpect ELSE memo
    /\ obs' = LostEntry(key)
    /\ UNCHANGED <<http, now, conf, sortImpl, call, watch>>

\* Time passes on the clock bigcache stamps its entries with.
AdvanceClock ==
    /\ now < MaxClock
    /\ now' = now + 1
    /\ UNCHANGED <<http, conf, sortImpl, cache, call, obs, watch, memo>>

\* bigcache removes an entry that has outlived the LifeWindow (cacheEntryTTL).
Expire(key) ==
    /\ cache[key].present
    /\ now - cache[key].insertedAt >= conf.cacheEntryTTL
    /\ cache' = [cache EXCEPT ![key] = NoEntry]
    /\ memo' = IF watch.on /\ key = watch.key THEN NoExpect ELSE memo
    /\ obs' = LostEntry(key)
    /\ UNCHANGED <<http, now, conf, sortImpl, call, watch>>

\* The bytes of an entry are damaged while it sits in the cache.
Corrupt(key, bytes) ==
    /\ cache[key].present
    /\ cache[key].bytes # bytes
    /\ cache' = [cache EXCEPT ![key].bytes = bytes]
    /\ memo' = IF watch.on /\ key = watch.key THEN NoExpect ELSE memo
    /\ obs' = LostEntry(key)
    /\ UNCHANGED <<http, now, conf, sortImpl, call, watch>>

\* ------------------------------------------------------------ HTTP surface

\* A request body is a sequence of JSON tokens; a member is a name with the
\* kind and text of its value.
Tok(t) == [t |-> t, name |-> <<>>, kind |-> "", val |-> <<>>]
Member(name, kind, val) == [t |-> "member", name |-> name, kind |-> kind, val |-> val]

\* Position of the first "}" at or after i, 0 when there is none.
RECURSIVE CloseOf(_, _)
CloseOf(body, i) ==
    IF i > Len(body) THEN 0
    ELSE IF body[i].t = "}" THEN i
    ELSE CloseOf(body, i + 1)

\* encoding/json matches a key to the field Content when the two are equal
\* up to the case of their ASCII letters.
FoldsToContent(name) ==
    /\ Len(name) = Len(<<"c", "o", "n", "t", "e", "n", "t">>)
    /\ \A i \in 1..Len(name) :
          \E j \in 1..Len(LowerChars) :
              /\ LowerChars[j] = <<"c", "o", "n", "t", "e", "n", "t">>[i]
              /\ name[i] \in {LowerChars[j], UpperChars[j]}

\* json.NewDecoder(r.Body).Decode(&inp): reads the first JSON value of the
\* body and nothing after it.  The value null leaves inp as it is; any other
\* value must be an object, in which a member matching Content must be a
\* string or null.  The last matching string wins.
DecodeInput(body) ==
    LET close == CloseOf(body, 1)
        named == {i \in 2..(close - 1) :
                     FoldsToContent(body[i].name) /\ body[i].kind = "string"}
    IN  IF body = <<>> THEN [ok |-> FALSE, content |-> <<>>]
        ELSE IF body[1].t = "null" THEN [ok |-> TRUE, content |-> <<>>]
        ELSE IF body[1].t # "{" \/ close = 0 THEN [ok |-> FALSE, content |-> <<>>]
        ELSE IF \E i \in 2..(close - 1) :
                    \/ body[i].t # "member"
                    \/ FoldsToContent(body[i].name) /\ body[i].kind \notin {"string", "null"}
             THEN [ok |-> FALSE, content |-> <<>>]
        ELSE [ok |-> TRUE,
              content |-> IF named = {} THEN <<>>
                          ELSE body[CHOOSE i \in named : \A j \in named : j <= i].val]

\* if so := params.Get("order"); so != "" && strings.ToLower(so) == "desc"
ParseOrder(so) ==
    IF so # <<>> /\ ToLower(so) = <<"d", "e", "s", "c">> THEN Descending ELSE Ascending

Digits == <<"0", "1", "2", "3", "4", "5", "6", "7", "8", "9">>

IsDigit(ch) == \E i \in 1..Len(Digits) : Digits[i] = ch

DigitVal(ch) == (CHOOSE i \in 1..Len(Digits) : Digits[i] = ch) - 1

RECURSIVE DigitsVal(_)
DigitsVal(s) ==
    IF s = <<>> THEN 0
    ELSE 10 * DigitsVal(SubSeq(s, 1, Len(s) - 1)) + DigitVal(s[Len(s)])

RECURSIVE StripZeros(_)
StripZeros(d) == IF d # <<>> /\ Head(d) = "0" THEN StripZeros(Tail(d)) ELSE d

\* a <= b for digit sequences of one length.
RECURSIVE DigitsLeq(_, _)
DigitsLeq(a, b) ==
    IF a = <<>> THEN TRUE
    ELSE IF DigitVal(Head(a)) < DigitVal(Head(b)) THEN TRUE
    ELSE IF DigitVal(Head(a)) > DigitVal(Head(b)) THEN FALSE
    ELSE DigitsLeq(Tail(a), Tail(b))

\* 1<<63 - 1, the largest int, and 1<<63, the size of the smallest.
MaxIntDigits == <<"9", "2", "2", "3", "3", "7", "2", "0", "3", "6",
                  "8", "5", "4", "7", "7", "5", "8", "0", "7">>
MinIntDigits == <<"9", "2", "2", "3", "3", "7", "2", "0", "3", "6",
                  "8", "5", "4", "7", "7", "5", "8", "0", "8">>

\* The digits, read with or without a minus sign, are an int (64 bits).
InIntRange(neg, digits) ==
    LET sig == StripZeros(digits)
    IN  \/ Len(sig) < Len(MaxIntDigits)
        \/ /\ Len(sig) = Len(MaxIntDigits)
           /\ DigitsLeq(sig, IF neg THEN MinIntDigits ELSE MaxIntDigits)

\* strconv.Atoi: an optional sign, then one or more decimal digits that make
\* an int.  (The value of more than nine significant digits is beyond the
\* integers TLC computes with.)
Atoi(s) ==
    LET digits == IF s # <<>> /\ Head(s) \in {"+", "-"} THEN Tail(s) ELSE s
    IN  IF digits = <<>> \/ \E i \in 1..Len(digits) : ~IsDigit(digits[i])
        THEN [ok |-> FALSE, val |-> 0]
        ELSE IF ~InIntRange(Head(s) = "-", digits)
        THEN [ok |-> FALSE, val |-> 0]
        ELSE [ok |-> TRUE,
              val |-> IF Head(s) = "-" THEN 0 - DigitsVal(digits) ELSE DigitsVal(digits)]

\* The limit taken from Atoi without looking at its error.
ParseLimitNoErrCheck(l) ==
    IF l = <<>> THEN -1 ELSE Atoi(l).val

\* limit := -1; if l := params.Get("limit"); l != "" { ... }
ParseLimit(l) ==
    IF l = <<>> THEN -1
    ELSE IF Atoi(l).ok THEN Atoi(l).val
    ELSE -1

\* A float32 +Inf score: above every finite score, and not encodable as JSON.
PosInf == 1000

\* json.NewEncoder(w).Encode(resp): fails on a score that is not finite.
EncodeJSON(ret) ==
    [ok |-> \A i \in 1..Len(ret.resp) : \A k \in DOMAIN ret.resp[i] : ret.resp[i][k] # PosInf,
     body |-> ret.resp,
     bodyNil |-> ret.respNil]

HTTPRequest(method, body, order, limit) ==
    [NoHTTP EXCEPT !.active = TRUE, !.method = method, !.reqBody = body,
                   !.order = order, !.limit = limit]

\* http.Error(w, text, status)
HTTPError(req, text, status) == [req EXCEPT !.status = status, !.text = text]

\* Service.handleHTTPRequest up to its call of ProcessSentiment: the method,
\* then the body; a request that passes both waits to be processed.
HandleHTTPRequest(c, method, body, order, limit) ==
    /\ ~http[c].active \/ http[c].status # 0
    /\ call[c].pc \in {"idle", "done"}
    /\ LET req == HTTPRequest(method, body, order, limit)
       IN  http' = [http EXCEPT ![c] =
                      IF method # "POST"
                          THEN HTTPError(req, "Bad request method", 405)
                      ELSE IF ~DecodeInput(body).ok
                          THEN HTTPError(req, "Bad request", 400)
                      ELSE req]
    /\ call' = [call EXCEPT ![c] = IdleCall]
    /\ obs' = [obs EXCEPT ![c] = NoObs]
    /\ UNCHANGED <<now, conf, sortImpl, cache, watch, memo>>

\* svc.ProcessSentiment(r.Context(), inp.Content, sortOrder, limit)
CallProcessSentiment(c, ctxDone) ==
    /\ http[c].active
    /\ http[c].status = 0
    /\ call[c].pc = "idle"
    /\ Enter(c, DecodeInput(http[c].reqBody).content, ParseOrder(http[c].order),
             ParseLimit(http[c].limit), ctxDone)

\* Service.handleHTTPRequest after ProcessSentiment has returned.
Reply(c) ==
    /\ http[c].active
    /\ http[c].status = 0
    /\ call[c].pc = "done"
    /\ http' = [http EXCEPT ![c] =
                  IF call[c].ret.err # NoError
                      THEN HTTPError(http[c], "Internal error", 500)
                  ELSE IF ~EncodeJSON(call[c].ret).ok
                      THEN HTTPError(http[c], "Internal error", 500)
                  ELSE [http[c] EXCEPT !.status = 200,
                                       !.body = EncodeJSON(call[c].ret).body,
                                       !.bodyNil = EncodeJSON(call[c].ret).bodyNil]]
    /\ UNCHANGED <<now, conf, sortImpl, cache, call, obs, watch, memo>>

Methods == {"POST", "GET"}

\* The bodies tried: none, {"content":" Hello "}, {"Content":"hello world"},
\* {"CONTENT":7}, {"text":7}, null, [], an unclosed object, and
\* {"content":" Hello "} followed by a stray }.
Bodies ==
    { <<>>,
      <<Tok("{"), Member(<<"c", "o", "n", "t", "e", "n", "t">>, "string",
                         <<" ", "H", "e", "l", "l", "o", " ">>), Tok("}")>>,
      <<Tok("{"), Member(<<"C", "o", "n", "t", "e", "n", "t">>, "string",
                         <<"h", "e", "l", "l", "o", " ", "w", "o", "r", "l", "d">>), Tok("}")>>,
      <<Tok("{"), Member(<<"C", "O", "N", "T", "E", "N", "T">>, "number", <<"7">>), Tok("}")>>,
      <<Tok("{"), Member(<<"t", "e", "x", "t">>, "number", <<"7">>), Tok("}")>>,
      <<Tok("null")>>,
      <<Tok("["), Tok("]")>>,
      <<Tok("{"), Member(<<"c", "o", "n", "t", "e", "n", "t">>, "string",
                         <<" ", "H", "e", "l", "l", "o", " ">>)>>,
      <<Tok("{"), Member(<<"c", "o", "n", "t", "e", "n", "t">>, "string",
                         <<" ", "H", "e", "l", "l", "o", " ">>), Tok("}"), Tok("}")>> }

\* The keys their texts address: those of the request texts, and the empty
\* key of a body that names no content.
HTTPKeys == Keys \cup {Sanitize(<<>>)}

\* The order parameters tried: absent, desc, DeSC, asc, descending.
OrderParams ==
    { <<>>, <<"d", "e", "s", "c">>, <<"D", "e", "S", "C">>, <<"a", "s", "c">>,
      <<"d", "e", "s", "c", "e", "n", "d", "i", "n", "g">> }

\* The limit parameters tried: absent, 1, -2, xxx, 1x and twenty nines.
LimitParams ==
    { <<>>, <<"1">>, <<"-", "2">>, <<"x", "x", "x">>, <<"1", "x">>,
      <<"9", "9", "9", "9", "9", "9", "9", "9", "9", "9",
        "9", "9", "9", "9", "9", "9", "9", "9", "9", "9">> }

\* The requests tried: every POST whose body decodes with every order and
\* limit, every other POST and every GET without parameters.
HTTPRequests ==
    ({"POST"} \X {b \in Bodies : DecodeInput(b).ok} \X OrderParams \X LimitParams)
        \cup (Methods \X Bodies \X {<<>>} \X {<<>>})

\* What the provider answers a request of the HTTP surface: the analysis of
\* the text, or a sentence with an infinite score.
HTTPResults(text) == {Analyze(text), Result(<<Sentence("hello", PosInf)>>)}

EnterAny ==
    \E c \in Solo, input \in RawTexts, sort \in SortOrders, limit \in Limits,
       ctxDone \in BOOLEAN : Enter(c, input, sort, limit, ctxDone)

\* The provider is a black box: it answers anything, or fails.
Next ==
    \/ EnterAny
    \/ \E c \in Solo : Lookup(c)
    \/ \E c \in Solo, resp \in ProviderResults, stored \in BOOLEAN : ProviderOK(c, resp, stored)
    \/ \E c \in Solo : ProviderFail(c)
    \/ \E c \in Solo : Shape(c)
    \/ \E c \in Solo : Cancel(c)
    \/ \E key \in Keys : Evict(key)

Spec == Init /\ [][Next]_vars

\* The same service, one (key, sort, limit) followed across calls.
InitRepeat ==
    /\ InitService
    /\ conf = DefaultConf
    /\ watch \in [on : {TRUE}, key : Keys, sort : SortOrders, limit : Limits]

SpecRepeat == InitRepeat /\ [][Next]_vars

\* The same service in front of a provider that is a function of its text.
NextDet ==
    \/ EnterAny
    \/ \E c \in Solo : Lookup(c)
    \/ \E c \in Solo, stored \in BOOLEAN : ProviderOK(c, Analyze(call[c].input), stored)
    \/ \E c \in Solo : ProviderFail(c)
    \/ \E c \in Solo : Shape(c)
    \/ \E c \in Solo : Cancel(c)
    \/ \E key \in Keys : Evict(key)

SpecDet == Init /\ [][NextDet]_vars

\* The same service with any configured request timeout, time observed
\* while the provider has not answered.
InitTimeout ==
    /\ InitService
    /\ conf \in {DefaultConf} \cup {WithRequestTimeout(DefaultConf, t) : t \in 1..MaxTimeout}
    /\ watch = NoWatch

NextTimeout ==
    \/ Next
    \/ \E c \in Solo : Tick(c)

SpecTimeout == InitTimeout /\ [][NextTimeout]_vars

\* The same service over a cache whose entries can go bad.
NextFaults ==
    \/ Next
    \/ \E key \in Keys, bytes \in CorruptForms : Corrupt(key, bytes)

SpecFaults == Init /\ [][NextFaults]_vars

\* The same service with any configured entry life time, on a cache whose
\* clock advances and whose entries expire.
InitClock ==
    /\ InitService
    /\ conf \in {DefaultConf} \cup {WithCacheEntryTTL(DefaultConf, t) : t \in 1..MaxTTL}
    /\ watch = NoWatch

NextClock ==
    \/ NextDet
    \/ AdvanceClock
    \/ \E key \in Keys : Expire(key)

SpecClock == InitClock /\ [][NextClock]_vars

\* Two callers at once: their steps interleave freely, nothing but the cache
\* is shared.
\* The texts two concurrent callers send: " Hello " and "hello", one key.
ConcTexts == { <<" ", "H", "e", "l", "l", "o", " ">>, <<"h", "e", "l", "l", "o">> }

\* The answers the provider gives them: it need not answer two calls alike.
ConcResults == {Analyze(r) : r \in ConcTexts}

NextConc ==
    \/ \E c \in Calls, input \in ConcTexts, sort \in SortOrders, ctxDone \in BOOLEAN :
          Enter(c, input, sort, -1, ctxDone)
    \/ \E c \in Calls : Lookup(c)
    \/ \E c \in Calls, resp \in ConcResults, stored \in BOOLEAN : ProviderOK(c, resp, stored)
    \/ \E c \in Calls : ProviderFail(c)
    \/ \E c \in Calls : Shape(c)
    \/ \E c \in Calls : Cancel(c)
    \/ \E key \in Keys : Evict(key)

SpecConc == Init /\ [][NextConc]_vars

\* The service behind its HTTP handler.
NextHTTP ==
    \/ \E c \in Solo, r \in HTTPRequests : HandleHTTPRequest(c, r[1], r[2], r[3], r[4])
    \/ \E c \in Solo, ctxDone \in BOOLEAN : CallProcessSentiment(c, ctxDone)
    \/ \E c \in Solo : Lookup(c)
    \/ \E c \in Solo : \E resp \in HTTPResults(call[c].input), stored \in BOOLEAN :
          ProviderOK(c, resp, stored)
    \/ \E c \in Solo : ProviderFail(c)
    \/ \E c \in Solo : Shape(c)
    \/ \E c \in Solo : Cancel(c)
    \/ \E c \in Solo : Reply(c)

InitHTTP ==
    /\ sortImpl = "go1.10"
    /\ conf = DefaultConf
    /\ cache = [k \in HTTPKeys |-> NoEntry]
    /\ call = [c \in Calls |-> IdleCall]
    /\ obs = [c \in Calls |-> NoObs]
    /\ watch = NoWatch
    /\ memo = NoExpect
    /\ http = [c \in Calls |-> NoHTTP]
    /\ now = 0

SpecHTTP == InitHTTP /\ [][NextHTTP]_vars

\* processAPIResult on its own: every sentence list, sort order and limit.
InitShape ==
    /\ sortImpl \in SortImpls
    /\ conf = DefaultConf
    /\ cache = [k \in Keys |-> NoEntry]
    /\ watch = NoWatch
    /\ memo = NoExpect
    /\ obs = [c \in Calls |-> NoObs]
    /\ http = [c \in Calls |-> NoHTTP]
    /\ now = 0
    /\ \E shape \in
              (({Result(s) : s \in SeqsUpTo(SentencePool, MaxSentences)} \cup {NilResult})
                  \X SortOrders \X ShapeLimits)
              \cup (ExtraResults \X (SortOrders \cup {UnnamedOrder}) \X ShapeLimits) :
          call = [c \in Calls |->
                    IF c \in Solo
                    THEN [IdleCall EXCEPT !.pc = "shape", !.result = shape[1],
                                          !.sort = shape[2], !.limit = shape[3]]
                    ELSE IdleCall]

NextShape == \E c \in Solo : Shape(c)

SpecShape == InitShape /\ [][NextShape]_vars

\* processAPIResult on lists long enough for sort.Sort to partition them.
\* The sentences carry distinct texts, so that the order of equal scores
\* shows in the response.
LongTexts == <<"a", "b", "c", "d", "e", "f", "g", "h", "i", "j", "k", "l", "m", "n",
               "o", "p">>

LongScores == {2, 8}

LongList(scores) == [i \in 1..Len(scores) |-> Sentence(LongTexts[i], scores[i])]

\* A list in ascending order already: one sentence of the least score, one
\* of the greatest and equal scores in between.
TiedScores == [i \in 1..LongSentences |->
                 IF i = 1 THEN -8 ELSE IF i = LongSentences THEN 8 ELSE 2]

LongResults ==
    {Result(LongList(scores)) : scores \in [1..LongSentences -> LongScores]}
        \cup {Result(LongList(TiedScores))}

\* No limit, a short prefix, and a limit that keeps the whole list.
LongLimits == {-1, 2, LongSentences}

InitLong ==
    /\ sortImpl = "go1.10"
    /\ conf = DefaultConf
    /\ cache = [k \in Keys |-> NoEntry]
    /\ watch = NoWatch
    /\ memo = NoExpect
    /\ obs = [c \in Calls |-> NoObs]
    /\ http = [c \in Calls |-> NoHTTP]
    /\ now = 0
    /\ \E shape \in LongResults \X SortOrders \X LongLimits :
          call = [c \in Calls |->
                    IF c \in Solo
                    THEN [IdleCall EXCEPT !.pc = "shape", !.result = shape[1],
                                          !.sort = shape[2], !.limit = shape[3]]
                    ELSE IdleCall]

NextLong == \E c \in Solo : Shape(c)

SpecLong == InitLong /\ [][NextLong]_vars

\* ------------------------------------------------------------------ claims

Finished(c) == call[c].pc = "done"

\* The call ran processAPIResult on a non-nil result with a live context.
Shaped(c) ==
    /\ Finished(c)
    /\ obs[c].checked
    /\ ~obs[c].checkDone
    /\ ~call[c].result.isNil

Min(a, b) == IF a < b THEN a ELSE b

ExpectedLen(n, limit) == IF limit < 0 THEN n ELSE Min(limit, n)

\* The response read back as sentences, one per single-key mapping.
SingleKeys(resp) == \A i \in 1..Len(resp) : Cardinality(DOMAIN resp[i]) = 1

AsSentences(resp) ==
    [i \in 1..Len(resp) |->
        LET t == CHOOSE t \in DOMAIN resp[i] : TRUE IN Sentence(t, resp[i][t])]

CountOf(seq, v) == Cardinality({i \in 1..Len(seq) : seq[i] = v})

Range(seq) == {seq[i] : i \in 1..Len(seq)}

Before(x, y, sortOrder) == IF sortOrder = Ascending THEN x < y ELSE x > y

IsPrefix(a, b) == Len(a) <= Len(b) /\ SubSeq(b, 1, Len(a)) = a

TextsWithScore(seq, sc) ==
    LET Test(x) == x.score = sc
        kept == SelectSeq(seq, Test)
    IN  [i \in 1..Len(kept) |-> kept[i].text]

\* C1: a call that finds the entry left by an earlier successful call with
\* the same key, sort order and limit returns, unless its own context is
\* cancelled, the response of that earlier call, and calls the provider never;
\* no call invokes the provider more than once.
C1_CacheTransparency ==
    \A c \in Calls :
        /\ Len(obs[c].provReqs) <= 1
        /\ obs[c].expect.valid =>
              /\ obs[c].provReqs = <<>>
              /\ obs[c].hit
              /\ Finished(c) /\ ~obs[c].checkDone =>
                    /\ call[c].ret.err = NoError
                    /\ ~call[c].ret.respNil
                    /\ call[c].ret.resp = obs[c].expect.resp

C1_Witness ==
    \E c \in Calls :
        /\ Finished(c)
        /\ obs[c].expect.valid
        /\ call[c].ret.err = NoError
        /\ Len(call[c].ret.resp) = 2
        /\ call[c].input = <<" ", "H", "e", "l", "l", "o", " ">>

\* C2: on a non-nil result with n sentences processAPIResult returns without
\* error a response of length min(limit, n) when limit >= 0 and n when limit < 0.
C2_LimitSemantics ==
    \A c \in Calls :
        Shaped(c) =>
            /\ call[c].ret.err = NoError
            /\ ~call[c].ret.respNil
            /\ Len(call[c].ret.resp) = ExpectedLen(Len(call[c].result.sentences), call[c].limit)

C2_Witness ==
    \E c \in Calls :
        /\ Shaped(c)
        /\ call[c].limit < 0
        /\ Len(call[c].result.sentences) = MaxSentences
        /\ Len(call[c].ret.resp) = MaxSentences

\* C3: the response is the first k of the input sentences in score order
\* (non-decreasing for Ascending, non-increasing for Descending), each as the
\* single-key mapping text -> score: every sentence scoring strictly before the
\* last one kept is kept as often as it occurs, none scoring after it is kept,
\* and no sentence is kept more often than it occurs.
C3_SortedPrefix ==
    \A c \in Calls :
        Shaped(c) /\ call[c].sort \in SortOrders =>
            LET in == call[c].result.sentences
                resp == call[c].ret.resp
                k == ExpectedLen(Len(in), call[c].limit)
            IN  /\ Len(resp) = k
                /\ SingleKeys(resp)
                /\ LET out == AsSentences(resp)
                   IN  /\ \A i \in 1..k, j \in 1..k :
                             i < j => ~Before(out[j].score, out[i].score, call[c].sort)
                       /\ Range(out) \subseteq Range(in)
                       /\ \A v \in Range(in) :
                             IF k = 0 THEN TRUE
                             ELSE IF Before(v.score, out[k].score, call[c].sort)
                                  THEN CountOf(out, v) = CountOf(in, v)
                             ELSE IF Before(out[k].score, v.score, call[c].sort)
                                  THEN CountOf(out, v) = 0
                             ELSE CountOf(out, v) <= CountOf(in, v)

C3_Witness ==
    \E c \in Calls :
        /\ Shaped(c)
        /\ call[c].sort = Descending
        /\ Len(call[c].ret.resp) = 2
        /\ Len(call[c].result.sentences) > 2
        /\ call[c].ret.resp[1] = call[c].ret.resp[2]
        /\ call[c].result.sentences[1].score = -8

\* C4: sentences of equal score keep their input order: for every score, the
\* texts of the response entries with that score are, in order, the first of
\* the texts of the input sentences with that score.
C4_Stable ==
    \A c \in Calls :
        Shaped(c) =>
            LET in == call[c].result.sentences
                out == AsSentences(call[c].ret.resp)
            IN  \A v \in Range(in) :
                    IsPrefix(TextsWithScore(out, v.score), TextsWithScore(in, v.score))

\* C5: when the provider call fails the call ends at once with that error and
\* no response, having invoked the provider exactly once; a call that returns
\* the provider's error is such a call.
C5_ProviderFailureFatal ==
    \A c \in Calls :
        /\ obs[c].provFailed =>
              /\ Finished(c)
              /\ call[c].ret.err = ProviderError
              /\ call[c].ret.respNil
              /\ Len(obs[c].provReqs) = 1
        /\ Finished(c) /\ call[c].ret.err = ProviderError =>
              /\ obs[c].provFailed
              /\ ~obs[c].hit

C5_Witness ==
    \E c \in Calls :
        /\ Finished(c)
        /\ obs[c].provFailed
        /\ call[c].ret.err = ProviderError
        /\ Len(obs[c].gets) = 1

\* C6: a call entered with an expired context has ended with the context
\* error and no response, without a cache get, a provider call or a cache set.
C6_CancelledBeforeWork ==
    \A c \in Calls :
        obs[c].entryDone =>
            /\ Finished(c)
            /\ call[c].ret.err = CtxError
            /\ call[c].ret.respNil
            /\ obs[c].gets = <<>>
            /\ obs[c].provReqs = <<>>
            /\ obs[c].sets = <<>>

C6_Witness ==
    \E c \in Calls :
        /\ Finished(c)
        /\ obs[c].entryDone
        /\ call[c].ret.err = CtxError
        /\ cache[Sanitize(call[c].input)].present

\* C7: a call whose context is found expired by the check made once the
\* result is available ends with the context error and no response; a call
\* that returns a response found its context live at that check.
C7_CancelledAtCheck ==
    \A c \in Calls :
        /\ Finished(c) /\ obs[c].checked /\ obs[c].checkDone =>
              /\ call[c].ret.err = CtxError
              /\ call[c].ret.respNil
        /\ Finished(c) /\ ~call[c].ret.respNil =>
              /\ obs[c].checked
              /\ ~obs[c].checkDone
              /\ ~obs[c].entryDone

\* The miss path: the provider answered, the result was stored, the context
\* had expired meanwhile.
C7_Witness ==
    \E c \in Calls :
        /\ Finished(c)
        /\ obs[c].checked
        /\ obs[c].checkDone
        /\ ~obs[c].entryDone
        /\ Len(obs[c].provReqs) = 1
        /\ Len(obs[c].sets) = 1
        /\ call[c].ret.err = CtxError

\* What the call returns with the cache disabled and a live context: the
\* shaping of the provider's answer to text.
Uncached(c, text) ==
    ProcessAPIResult(FALSE, Analyze(text), call[c].sort, call[c].limit, sortImpl)

\* C8 as claimed: a successful call returns what it returns with the cache
\* disabled, the shaping of the provider's answer to its own raw text.
C8_AsClaimed ==
    \A c \in Calls :
        Finished(c) /\ call[c].ret.err = NoError =>
            call[c].ret = Uncached(c, call[c].input)

\* C8: a successful call returns the shaping, with its own sort order and
\* limit, of the provider's answer to a text with the same normalized key as
\* its raw text; on a miss that text is its own raw text.
C8_CacheIsOptimization ==
    \A c \in Calls :
        Finished(c) /\ call[c].ret.err = NoError =>
            \E r \in RawTexts :
                /\ Sanitize(r) = Sanitize(call[c].input)
                /\ ~obs[c].hit => r = call[c].input
                /\ call[c].ret = Uncached(c, r)

C8_Witness ==
    \E c \in Calls :
        /\ Finished(c)
        /\ call[c].ret.err = NoError
        /\ obs[c].hit
        /\ call[c].ret # Uncached(c, call[c].input)
        /\ call[c].limit = 1
        /\ call[c].sort = Ascending

\* C9: a call whose provider had not answered within the configured request
\* timeout has failed, whatever the caller's context.
C9_RequestTimeout ==
    \A c \in Calls :
        Finished(c) /\ obs[c].waited > conf.requestTimeout =>
            call[c].ret.err # NoError

\* lowercase(trim(text)) of the request texts, written out.
NormalForm(text) ==
    IF text = <<"h", "e", "l", "l", "o", " ", "w", "o", "r", "l", "d">>
    THEN <<"h", "e", "l", "l", "o", " ", "w", "o", "r", "l", "d">>
    ELSE <<"h", "e", "l", "l", "o">>

\* C10: the provider is handed the raw text unchanged, the cache get and the
\* cache set are handed lowercase(trim(raw text)); " Hello " and "hello" have
\* one key, "Hello" and "hello world" have two; form feed, vertical tab and
\* no-break space are trimmed, an accented capital is lowered.
C10_RawToProviderKeyToCache ==
    /\ \A c \in Calls :
          /\ Range(obs[c].provReqs) \subseteq {call[c].input}
          /\ Range(obs[c].gets) \subseteq {NormalForm(call[c].input)}
          /\ Range(obs[c].sets) \subseteq {NormalForm(call[c].input)}
          /\ call[c].pc \in {"calling", "shape"} => Len(obs[c].gets) = 1
          /\ call[c].pc = "calling" => Len(obs[c].provReqs) = 1
    /\ Sanitize(<<" ", "H", "e", "l", "l", "o", " ">>) = Sanitize(<<"h", "e", "l", "l", "o">>)
    /\ Sanitize(<<"\f", "H", " ", "É", "\\v", "\\u00a0">>) = <<"h", " ", "é">>
    /\ Sanitize(<<"H", "e", "l", "l", "o">>)
          # Sanitize(<<"h", "e", "l", "l", "o", " ", "w", "o", "r", "l", "d">>)
    /\ \A k \in Keys : \E r \in RawTexts : k = NormalForm(r)

C10_Witness ==
    \E c \in Calls :
        /\ Finished(c)
        /\ call[c].input = <<" ", "H", "e", "l", "l", "o", " ">>
        /\ obs[c].provReqs = << <<" ", "H", "e", "l", "l", "o", " ">> >>
        /\ obs[c].gets = << <<"h", "e", "l", "l", "o">> >>
        /\ obs[c].sets = << <<"h", "e", "l", "l", "o">> >>
        /\ cache[<<"h", "e", "l", "l", "o">>].present

\* C11: a call returns an error only when its context was expired at one of
\* the two checks or the provider call failed; an entry that fails to decode
\* is a miss and the provider is called; after a provider success the call
\* returns the shaping of the fetched result whether or not it could be
\* encoded and stored.
C11_OnlyCancelledAndProviderFatal ==
    \A c \in Calls :
        /\ Finished(c) /\ call[c].ret.err # NoError =>
              \/ call[c].ret.err = CtxError
                    /\ (obs[c].entryDone \/ (obs[c].checked /\ obs[c].checkDone))
              \/ call[c].ret.err = ProviderError /\ obs[c].provFailed
        /\ obs[c].decodeErr => ~obs[c].hit
        /\ Len(obs[c].gets) = 1 /\ ~obs[c].hit => Len(obs[c].provReqs) = 1
        /\ Finished(c) /\ ~obs[c].hit /\ ~obs[c].provFailed /\ ~obs[c].entryDone
              /\ ~obs[c].checkDone =>
              /\ call[c].ret.err = NoError
              /\ call[c].ret = ProcessAPIResult(FALSE, call[c].result, call[c].sort,
                                                call[c].limit, sortImpl)

\* An entry that failed to decode, a provider answer that cache.Set dropped,
\* and still a response.
C11_Witness ==
    \E c \in Calls :
        /\ Finished(c)
        /\ obs[c].decodeErr
        /\ obs[c].setDropped
        /\ call[c].ret.err = NoError
        /\ Len(call[c].ret.resp) = 2

\* The whole body is one JSON value (an object of members, an empty array,
\* or null).
ValidJSON(body) ==
    \/ /\ Len(body) >= 2
       /\ body[1].t = "{"
       /\ body[Len(body)].t = "}"
       /\ \A i \in 2..(Len(body) - 1) : body[i].t = "member"
    \/ body = <<Tok("["), Tok("]")>>
    \/ body = <<Tok("null")>>

\* An exchange that has been answered.
Answered(c) == http[c].active /\ http[c].status # 0

\* C12: a request that is not a POST is answered 405 whatever its body; a POST
\* whose body is not valid JSON is answered 400; a POST whose ProcessSentiment
\* call failed is answered 500 "Internal error"; any other is answered 200
\* with the shaped Response; a request answered 405 or 400 has touched
\* neither the cache nor the provider.
C12_StatusMapping ==
    \A c \in Calls : Answered(c) =>
        /\ http[c].method # "POST" => http[c].status = 405
        /\ http[c].method = "POST" /\ ~ValidJSON(http[c].reqBody) => http[c].status = 400
        /\ http[c].method = "POST" /\ ValidJSON(http[c].reqBody) /\ Finished(c)
              /\ call[c].ret.err # NoError =>
              http[c].status = 500 /\ http[c].text = "Internal error"
        /\ http[c].method = "POST" /\ ValidJSON(http[c].reqBody) /\ Finished(c)
              /\ call[c].ret.err = NoError =>
              /\ http[c].status = 200
              /\ http[c].body = call[c].ret.resp
              /\ http[c].bodyNil = call[c].ret.respNil
        /\ http[c].status \in {405, 400} =>
              obs[c].gets = <<>> /\ obs[c].sets = <<>> /\ obs[c].provReqs = <<>>

\* What the handler does do: the body is judged by its first JSON value, and
\* a Response that cannot be encoded is answered 500.
C12_StatusByFirstValue ==
    \A c \in Calls : Answered(c) =>
        /\ http[c].method # "POST" => http[c].status = 405
        /\ http[c].method = "POST" /\ ~DecodeInput(http[c].reqBody).ok => http[c].status = 400
        /\ http[c].method = "POST" /\ DecodeInput(http[c].reqBody).ok =>
              /\ Finished(c)
              /\ call[c].ret.err # NoError \/ ~EncodeJSON(call[c].ret).ok =>
                    http[c].status = 500 /\ http[c].text = "Internal error"
              /\ call[c].ret.err = NoError /\ EncodeJSON(call[c].ret).ok =>
                    /\ http[c].status = 200
                    /\ http[c].body = call[c].ret.resp
                    /\ http[c].bodyNil = call[c].ret.respNil
        /\ http[c].status \in {405, 400} =>
              obs[c].gets = <<>> /\ obs[c].sets = <<>> /\ obs[c].provReqs = <<>>

\* An exchange whose request passed the method and body tests and whose
\* ProcessSentiment call has been made.
Processed(c) ==
    /\ http[c].active
    /\ http[c].method = "POST"
    /\ DecodeInput(http[c].reqBody).ok
    /\ call[c].pc # "idle"

\* C13: a request whose limit parameter is absent or is no int (xxx, 1x,
\* twenty nines)
\* is processed with limit -1, is not rejected and, when answered 200, carries
\* every sentence of the result; a request whose order parameter is absent
\* or is not "desc" in some casing (asc, descending) is processed Ascending,
\* and one whose order is desc or DeSC is processed Descending.
C13_QueryDefaults ==
    \A c \in Calls : Processed(c) =>
        /\ http[c].limit \in {<<>>, <<"x", "x", "x">>, <<"1", "x">>,
                              <<"9", "9", "9", "9", "9", "9", "9", "9", "9", "9",
                                "9", "9", "9", "9", "9", "9", "9", "9", "9", "9">>} =>
              /\ call[c].limit = -1
              /\ Answered(c) => http[c].status \in {200, 500} /\ Finished(c)
              /\ Answered(c) /\ http[c].status = 200 /\ ~http[c].bodyNil =>
                    Len(http[c].body) = Len(call[c].result.sentences)
        /\ http[c].limit = <<"1">> => call[c].limit = 1
        /\ http[c].limit = <<"-", "2">> => call[c].limit = -2
        /\ http[c].order \in {<<>>, <<"a", "s", "c">>,
                              <<"d", "e", "s", "c", "e", "n", "d", "i", "n", "g">>} =>
              call[c].sort = Ascending
        /\ http[c].order \in {<<"d", "e", "s", "c">>, <<"D", "e", "S", "C">>} =>
              call[c].sort = Descending

\* POST /api?order=descending&limit=xxx for "hello world": answered 200 with
\* both sentences, lowest score first.
C13_Witness ==
    \E c \in Calls :
        /\ Processed(c)
        /\ Answered(c)
        /\ http[c].limit = <<"x", "x", "x">>
        /\ http[c].order = <<"d", "e", "s", "c", "e", "n", "d", "i", "n", "g">>
        /\ http[c].status = 200
        /\ http[c].body = <<("world" :> 0), ("hello" :> 8)>>

\* C14: shaping the sentences of the Response a call returned, in their
\* output order, with the same sort order and limit gives that Response
\* again. (That shaping returns the same Response for the same sentence
\* list, sort order and limit needs no formula: ProcessAPIResult is an
\* operator of these arguments and of the sort implementation linked.)
C14_ShapingIdempotent ==
    \A c \in Calls : Shaped(c) =>
        ProcessAPIResult(FALSE, Result(AsSentences(call[c].ret.resp)), call[c].sort,
                         call[c].limit, sortImpl)
            = call[c].ret

\* C15: a cache entry (presence, payload, insertion time) changes only when
\* the cache removes it, or in the step where a call on the miss path gets
\* its provider answer, and then only the entry under the normalized key of
\* that call, which becomes the encoded answer stamped with the present
\* time.  A step in which a call hits, is cancelled at entry, fails at the
\* provider or shapes its result leaves the whole cache as it was.
C15_CacheWriteDiscipline ==
    [][ /\ \A k \in Keys : cache'[k] # cache[k] =>
              \/ cache'[k] = NoEntry /\ call' = call
              \/ \E c \in Calls :
                    /\ call[c].pc = "calling"
                    /\ call'[c].pc = "shape"
                    /\ k = NormalForm(call[c].input)
                    /\ cache'[k] = [present |-> TRUE,
                                    bytes |-> Marshal(call'[c].result).bytes,
                                    insertedAt |-> now]
        /\ \A c \in Calls :
              \/ call[c].pc = "lookup" /\ call'[c].pc = "shape"
              \/ call'[c].pc = "done" /\ call'[c] # call[c]
              => cache' = cache
      ]_vars

\* A call that hit an entry which is still there with its first insertion
\* time, at a later time and past a configured life time.
C15_Witness ==
    \E c \in Calls :
        /\ Finished(c)
        /\ obs[c].hit
        /\ call[c].ret.err = NoError
        /\ cache[NormalForm(call[c].input)].present
        /\ cache[NormalForm(call[c].input)].insertedAt = 1
        /\ now - cache[NormalForm(call[c].input)].insertedAt >= conf.cacheEntryTTL

\* C16: a call that missed, got an answer from the provider and was found
\* cancelled at the check after it returns the context error, yet has handed
\* the answer to cache.Set under its normalized key, and (unless the cache
\* dropped it) the entry decodes to the answer's sentences in provider order;
\* the next call with the same normalized key, entered with a live context
\* while that entry is there, hits, makes no provider call and, its context
\* still live at the check, returns the shaping of that answer under its own
\* sort order and limit.
C16_AbandonedCallPopulatesCache ==
    \A c \in Calls :
        /\ Finished(c) /\ obs[c].checked /\ obs[c].checkDone /\ ~obs[c].hit
              /\ ~call[c].result.isNil =>
              /\ call[c].ret = Returned(<<>>, TRUE, CtxError)
              /\ obs[c].sets = <<NormalForm(call[c].input)>>
              /\ ~obs[c].setDropped /\ ~obs[c].lostEntry =>
                    /\ cache[NormalForm(call[c].input)].present
                    /\ Unmarshal(cache[NormalForm(call[c].input)].bytes)
                          = [ok |-> TRUE, result |-> call[c].result]
        /\ obs[c].follows.valid /\ ~obs[c].entryDone =>
              /\ call[c].pc = "lookup" => cache[NormalForm(call[c].input)].present
              /\ call[c].pc # "lookup" => obs[c].hit /\ obs[c].provReqs = <<>>
              /\ Finished(c) /\ ~obs[c].checkDone =>
                    call[c].ret = ProcessAPIResult(FALSE, obs[c].follows.result,
                                                   call[c].sort, call[c].limit, sortImpl)

\* "hello" asked again, Ascending, after a call on that key was abandoned
\* with the provider's answer [hello: 0.2, hello: -0.8] already stored.
C16_Witness ==
    \E c \in Calls :
        /\ obs[c].follows.valid
        /\ obs[c].follows.result.sentences = <<Sentence("hello", 2), Sentence("hello", -8)>>
        /\ Finished(c)
        /\ obs[c].hit
        /\ obs[c].provReqs = <<>>
        /\ call[c].sort = Ascending
        /\ call[c].ret = Returned(<<("hello" :> -8), ("hello" :> 2)>>, FALSE, NoError)

\* What holds of every state of two concurrent callers: a call that missed
\* has made exactly one provider call, with its own text; a call that missed
\* and was live at the check returned the shaping of the answer it got; an
\* entry is the whole encoding of one provider answer.
ConcState ==
    /\ \A c \in Calls :
          /\ Len(obs[c].gets) = 1 /\ ~obs[c].hit => obs[c].provReqs = <<call[c].input>>
          /\ Finished(c) /\ ~obs[c].hit /\ obs[c].checked /\ ~obs[c].checkDone =>
                call[c].ret = ProcessAPIResult(FALSE, call[c].result, call[c].sort,
                                               call[c].limit, sortImpl)
    /\ \A k \in Keys : cache[k].present =>
          \E r \in ConcResults : cache[k].bytes = Marshal(r).bytes

\* What holds of every step: a lookup that finds no entry goes on to the
\* provider whatever the other caller is doing; the answer of a provider call
\* reaches its caller only; and the Set that follows it leaves that answer,
\* encoded whole, under the key, whatever was there.
ConcStep ==
    \A c \in Calls :
        /\ call[c].pc = "lookup" /\ call'[c].pc # "lookup"
              /\ ~cache[NormalForm(call[c].input)].present =>
              call'[c].pc = "calling" /\ obs'[c].provReqs = <<call[c].input>>
        /\ call[c].pc = "calling" /\ call'[c].pc = "shape" =>
              /\ \A d \in Calls \ {c} : call'[d] = call[d]
              /\ Len(obs'[c].sets) = 1 /\ ~obs'[c].setDropped =>
                    /\ cache'[NormalForm(call[c].input)].present
                    /\ cache'[NormalForm(call[c].input)].bytes
                          = Marshal(call'[c].result).bytes

\* C17: calls on one cold key are not coalesced: each lookup that finds no
\* entry leads to a provider call of its own, each caller is returned the
\* shaping of the answer to its own provider call, and the entry is the whole
\* encoded answer of the call that stored last.
C17_NoCoalescing == []ConcState /\ [][ConcStep]_vars

\* Two calls on the key "hello", both missed, each with one provider call and
\* a different answer, each returned its own answer shaped; the entry is the
\* answer of c2.
C17_Witness ==
    /\ \A c \in Calls :
          /\ Finished(c)
          /\ NormalForm(call[c].input) = <<"h", "e", "l", "l", "o">>
          /\ ~obs[c].hit
          /\ Len(obs[c].provReqs) = 1
          /\ Len(obs[c].sets) = 1
          /\ ~obs[c].setDropped
          /\ ~obs[c].lostEntry
          /\ call[c].ret.err = NoError
    /\ call["c1"].result # call["c2"].result
    /\ call["c1"].ret.resp = <<("Hello" :> 8)>>
    /\ call["c2"].ret.resp = <<("hello" :> -8), ("hello" :> 2)>>
    /\ cache[<<"h", "e", "l", "l", "o">>].present
    /\ cache[<<"h", "e", "l", "l", "o">>].bytes = Marshal(call["c2"].result).bytes

====
